---- MODULE Spec2Model ----
(***************************************************************************)
(* Loan-Chatbot: the all-in-one chat server (app.js), the HTTP retry       *)
(* helper of the chat client (services/chatApi.ts, withRetry) and the      *)
(* chat hook (hooks/useChat.ts), each as a state machine.                  *)
(*                                                                         *)
(*   Spec       the chat server: POST /api/chat/message over the           *)
(*              in-memory stores sessionData, applications and             *)
(*              sanctionLetters                                            *)
(*   RetrySpec  one withRetry call over an operation whose attempts        *)
(*              succeed or fail as the environment chooses                 *)
(*   ChatSpec   one useChat hook: sendMessage, uploadFile and              *)
(*              resetConversation with their requests in flight            *)
(*                                                                         *)
(* Conventions.  Currency amounts are integers.  Interest rates are in     *)
(* tenths of a percent (12.0% is 120).  An identifier the code builds      *)
(* from Date.now() (session_<t>, APP_<t>, SL_<t>) is modelled by its       *)
(* timestamp t.  A JavaScript null/undefined object is the empty           *)
(* sequence and a present object x is <<x>>.                               *)
(***************************************************************************)
EXTENDS Integers, Sequences, FiniteSets, TLC

(***************************************************************************)
(* Bounds of the model                                                     *)
(***************************************************************************)
\* largest value of the millisecond clock Date.now()
MaxTime == 1
\* largest number of chat requests the server handles
MaxRequests == 4

(***************************************************************************)
(* Program constants                                                       *)
(***************************************************************************)
\* the pre-approved limit every offer lookup of app.js answers with
PreApprovedLimit == 500000
\* the fallback amount of the approval and sanction branches
DefaultAmount == 500000
\* tenure written to every application and sanction letter
FixedTenure == 60
\* interest rate written to every application and letter, 12.0 in tenths
FixedRate == 120
\* EMI factor of the approval and sanction branches, 0.0222 as n / 10000
EmiFactor == 222
\* denominator of the EMI factors
FactorDen == 10000
\* credit-check score: Math.floor(Math.random() * 100) + 750
ScoreBase == 750
ScoreSpan == 100
\* underwriting threshold of Requirement 4.5 (never consulted by app.js)
ScoreThreshold == 700

(***************************************************************************)
(* JavaScript values                                                       *)
(***************************************************************************)
\* the number NaN, result of parseFloat/parseInt on a non-numeric field
NaN == -1
\* a form field that is absent or empty
Undefined == -2
\* a form field that holds non-numeric text
Text == -3
\* null or undefined object
Null == <<>>

\* parseFloat(field): a numeric field gives its number, anything else NaN
ParseFloat(raw) == IF raw \in {Undefined, Text} THEN NaN ELSE raw

\* parseInt(field)
ParseInt(raw) == IF raw \in {Undefined, Text} THEN NaN ELSE raw

\* x || d on numbers: NaN and 0 are falsy
OrDefault(x, d) == IF x = NaN \/ x = 0 THEN d ELSE x

\* Math.round(amount * factor), factor = num / FactorDen; rounds half up
RoundMul(amount, num) == (amount * num + FactorDen \div 2) \div FactorDen

(***************************************************************************)
(* Inbound chat messages.  A message is modelled by the set of the         *)
(* handler's keywords that occur in its lower-cased text, which is all     *)
(* msgLower.includes(...) observes.                                        *)
(***************************************************************************)
\* "Thanks"
MsgOther == {}
\* "I need a loan"
MsgNeedLoan == {"need", "loan"}
\* "I select Option 1 with ... EMI for 36 months."
MsgSelect == {"select", "option"}
\* "Verification complete. Please check my credit score and eligibility for the loan."
MsgCreditCheck == {"verification complete", "eligibility", "loan"}
\* "Yes, I agree. Please proceed with loan approval and check my eligibility."
MsgApproval == {"loan", "approval", "eligibility"}
\* "Yes, please approve my loan and generate my sanction letter now."
MsgGenerateLetter == {"approve", "loan", "generate", "sanction", "letter"}
\* "Send the letter"
MsgLetter == {"letter"}

Messages ==
    {MsgOther, MsgNeedLoan, MsgSelect, MsgCreditCheck, MsgApproval,
     MsgGenerateLetter, MsgLetter}

\* msgLower.includes(w1) || msgLower.includes(w2) || ...
IncludesAny(msg, words) == msg \cap words # {}

GreetWords == {"loan", "apply", "need", "hi", "hello"}
SelectWords == {"select", "option"}
CreditWords == {"verification complete", "credit check"}
LetterWords == {"sanction", "letter", "generate"}
ApprovalWords == {"approval", "approve", "eligibility"}

(***************************************************************************)
(* Customer-information forms (form_data.form_data of the request)         *)
(***************************************************************************)
MkForm(salary, amount) ==
    [full_name |-> "Asha", phone |-> "9876543210", city |-> "Pune",
     age |-> 30, monthly_salary |-> salary, loan_amount |-> amount,
     employment_type |-> "salaried"]

\* at the limit; between the limit and twice the limit on a low salary;
\* one currency unit above twice the limit
Forms ==
    {MkForm(80000, PreApprovedLimit),
     MkForm(15000, 950000),
     MkForm(80000, 2 * PreApprovedLimit + 1)}

NoForm == <<>>

\* a record of the mock data; a field the record lacks is 0 or ""
MockRecord(id, score, limit, interest) ==
    [id |-> id, score |-> score, limit |-> limit, rate |-> interest]

\* a response without data
NoData == MockRecord("", 0, 0, 0)

\* a response of a mock endpoint: the service and route, the status, the
\* success field ("none" if absent), the data field, the top-level
\* creditScore, preApprovedLimit and interestRate fields, and what the
\* message field tells (nothing, but for simulate-error)
Answer(service, route, userId, status, success, data, top) ==
    [service |-> service, route |-> route, userId |-> userId,
     status |-> status, success |-> success, data |-> data, top |-> top,
     message |-> <<>>]

NoAnswer == Answer("none", "none", "", 0, "none", NoData, NoData)

\* no EMI computed yet
NoEmi == -1

\* no file selected yet
NoFile == [type |-> "", size |-> 0]

\* bounds of the customer_info form's number fields
MinAge == 21
MaxAge == 65
MinSalary == 15000
MinLoanAmount == 50000
MaxLoanAmount == 5000000

\* forms a client can send or a customer can fill in: a valid one, loan
\* amounts just outside the bounds, a missing and a non-numeric loan amount
AnyForms ==
    {MkForm(80000, PreApprovedLimit),
     MkForm(80000, MinLoanAmount - 1),
     MkForm(80000, MaxLoanAmount + 1),
     MkForm(80000, Undefined),
     MkForm(80000, Text)}

(***************************************************************************)
(* Session identifiers                                                     *)
(***************************************************************************)
\* a request without sessionId
NoId == <<"none", 0>>
\* `session_${Date.now()}`
GeneratedId(t) == <<"session", t>>
\* identifiers a client may send of its own accord
ClientIds == {<<"client", 1>>}

VARIABLES
    \* app.js
    sessionData,       \* session id -> [stage, customerData, loanOption]
    applications,      \* sequence of application records
    sanctionLetters,   \* sequence of sanction-letter records
    now,               \* Date.now()
    reply,             \* the response sent last
    appSession,        \* history: session that produced applications[i]
    letterSession,     \* history: session that produced sanctionLetters[i]
    handled,           \* history: number of chat requests handled
    \* chatApi.ts: one withRetry call
    rPc,               \* "idle", "call", "sleeping", "returned" or "thrown"
    rMax,              \* config.maxRetries
    attempt,           \* the loop variable
    lastError,         \* lastError (Null before the first failure)
    thrown,            \* the error the call rejected with (Null if none)
    rErrors,           \* history: the error of every failed attempt
    rSleeps,           \* history: the delay of every sleep
    \* useChat.ts: one chat hook
    messages,          \* the messages state
    isTyping,
    isLoading,
    currentAgent,
    conversationContext,
    error,
    inFlight,          \* the calls awaiting their request
    timers,            \* follow-up messages scheduled by setTimeout
    calls,             \* history: number of calls started
    generation,        \* history: number of resets that cleared the chat
    \* app.js: GET /api/download/sanction-letter/:letterId
    downloads,         \* history: number of letters sent for download
    served,            \* the download response sent last
    \* app.js: GET /api/history/*
    history,           \* the history response sent last
    \* useChat.ts against the chat server
    resetOf,           \* history: session and call of the reset request settled
                       \* last, until a message sent after it is answered
    \* HistoryPage.tsx: CustomerInfoForm
    formErrors,        \* the errors state: set of <<field, error>>
    submitted,         \* the form data handed to onSubmit, not yet posted
    \* ChatInput.tsx: the file input
    selected,          \* history: the file selected last
    alerted,           \* history: the alert the last selection raised
    selects,           \* history: number of files selected
    \* LandingPage.tsx: the EMI calculator
    loanAmount,
    tenure,
    rate,              \* the rate calculateEMI is called with
    emi,               \* calculateEMI(loanAmount, tenure, rate)
    quoted,            \* the loan options computed last for an amount
    \* mock-apis.js: the mock services
    simulateErrors,        \* error simulation flags of the CRM service
    creditSimulateErrors,  \* ... of the credit bureau
    offerSimulateErrors,   \* ... of the offer mart
    answer,                \* the response a mock endpoint sent last
    mockRequests,          \* history: number of requests to mock endpoints
    crmLog,                \* history: the status of every GET /crm/:userId
                           \* of the CRM service
    \* App.tsx
    currentPage,           \* "landing", "chat", "history" or "verification"
    verificationData,      \* Null or <<run>>
    verificationResult,    \* Null or <<n>>: the result object of callback n
    chatMounted,
    \* ChatContainer.tsx
    pendingVerification,   \* TRUE, or FALSE for null
    verificationProcessed,
    chatCustomer,          \* customerData of the hook is set
    \* VerificationPage.tsx: the mounted page
    activeStep,
    loading,
    otpSent,
    aadhaarVerified,
    phoneVerified,
    addressVerified,
    waiting,               \* the awaits and timers of verification pages
    runs,                  \* history: number of verifications started
    completed              \* history: the run of every onVerificationComplete

serverVars ==
    <<sessionData, applications, sanctionLetters, now, reply,
      appSession, letterSession, handled>>

retryVars == <<rPc, rMax, attempt, lastError, thrown, rErrors, rSleeps>>

chatVars ==
    <<messages, isTyping, isLoading, currentAgent, conversationContext, error,
      inFlight, timers, calls, generation>>

\* state of the download endpoint's history, of a reset under way, of the
\* mock services, of the form and file inputs and of the EMI calculator
formVars == <<formErrors, submitted>>

fileVars == <<selected, alerted, selects>>

calcVars == <<loanAmount, tenure, rate, emi, quoted>>

mockVars ==
    <<simulateErrors, creditSimulateErrors, offerSimulateErrors, answer,
      mockRequests, crmLog>>

verificationVars ==
    <<activeStep, loading, otpSent, aadhaarVerified, phoneVerified,
      addressVerified>>

appVars ==
    <<currentPage, verificationData, verificationResult, chatMounted,
      pendingVerification, verificationProcessed, chatCustomer,
      verificationVars, waiting, runs, completed>>

pageVars == <<formVars, fileVars, calcVars, mockVars, appVars>>

extVars ==
    <<downloads, served, history, resetOf, pageVars>>

vars == <<serverVars, retryVars, chatVars, extVars>>

(***************************************************************************)
(* app.js: POST /api/chat/message                                          *)
(***************************************************************************)
Stages ==
    {"initiation", "sales", "verification", "underwriting", "approved",
     "completed"}

\* sessionData[session] = { stage: 'initiation', customerData: null, loanOption: null }
NewSession == [stage |-> "initiation", customerData |-> Null, loanOption |-> Null]

\* const session = sessionId || `session_${Date.now()}`
SessionOf(sessionId, t) == IF sessionId = NoId THEN GeneratedId(t) ELSE sessionId

\* if (!sessionData[session]) sessionData[session] = {...}
Lookup(sd, session) == IF session \in DOMAIN sd THEN sd[session] ELSE NewSession

\* mutant: one context object shared by all sessions
StoreShared(sd, session, rec) == [s \in DOMAIN sd \cup {session} |-> rec]

\* state.X = ... : a write through state, the record of this session only
Store(sd, session, rec) ==
    [s \in DOMAIN sd \cup {session} |-> IF s = session THEN rec ELSE sd[s]]

\* state.customerData = { name: fd.full_name, ... }
CustomerOf(fd) ==
    [name |-> fd.full_name, phone |-> fd.phone, city |-> fd.city,
     age |-> ParseInt(fd.age), salary |-> ParseFloat(fd.monthly_salary),
     loanAmount |-> ParseFloat(fd.loan_amount),
     employmentType |-> fd.employment_type]

\* state.customerData?.loanAmount || 500000
AmountOf(state) ==
    IF state.customerData = Null THEN DefaultAmount
    ELSE OrDefault(state.customerData[1].loanAmount, DefaultAmount)

\* state.customerData?.name || 'Customer'
NameOf(state) ==
    IF state.customerData = Null THEN "Customer"
    ELSE state.customerData[1].name

\* the chain of if-statements of the handler: the branch that answers
Branch(stage, msg, form) ==
    IF form # NoForm THEN "form"
    ELSE IF stage = "initiation" /\ IncludesAny(msg, GreetWords) THEN "greeting"
    ELSE IF IncludesAny(msg, SelectWords) THEN "verification"
    ELSE IF IncludesAny(msg, CreditWords) THEN "credit"
    ELSE IF stage = "approved" /\ IncludesAny(msg, LetterWords) THEN "sanction"
    ELSE IF stage # "approved" /\ IncludesAny(msg, ApprovalWords) THEN "approval"
    ELSE "default"

\* mutant: the application is saved before the decision
ApplicationStatusPending(amount, state) == "pending"

\* mutant: approves only strictly below the pre-approved limit
ApplicationStatusBelowLimit(amount, state) ==
    IF amount < PreApprovedLimit THEN "approved" ELSE "rejected"

\* status written by the approval branch
ApplicationStatus(amount, state) == "approved"

\* the record pushed to applications
Application(state, t) ==
    [id |-> t,
     customer_name |-> NameOf(state),
     requested_amount |-> AmountOf(state),
     approved_amount |-> AmountOf(state),
     tenure |-> FixedTenure,
     interest_rate |-> FixedRate,
     emi |-> RoundMul(AmountOf(state), EmiFactor),
     status |-> ApplicationStatus(AmountOf(state), state),
     created_at |-> t]

\* mutant: the letter is written for the default amount
SanctionLetterForDefault(state, t) ==
    [id |-> t,
     customer_name |-> NameOf(state),
     loan_amount |-> DefaultAmount,
     tenure |-> FixedTenure,
     interest_rate |-> FixedRate,
     emi |-> RoundMul(DefaultAmount, EmiFactor),
     generated_at |-> t,
     downloaded_count |-> 0]

\* the record pushed to sanctionLetters
SanctionLetter(state, t) ==
    [id |-> t,
     customer_name |-> NameOf(state),
     loan_amount |-> AmountOf(state),
     tenure |-> FixedTenure,
     interest_rate |-> FixedRate,
     emi |-> RoundMul(AmountOf(state), EmiFactor),
     generated_at |-> t,
     downloaded_count |-> 0]

\* mutant: the approval branch pushes the application and leaves the stage
NextStageWithoutApproved(branch, stage) ==
    CASE branch = "form" -> "sales"
      [] branch = "verification" -> "verification"
      [] branch = "credit" -> "underwriting"
      [] branch = "sanction" -> "completed"
      [] OTHER -> stage

\* stage of the session after the branch has run
NextStage(branch, stage) ==
    CASE branch = "form" -> "sales"
      [] branch = "verification" -> "verification"
      [] branch = "credit" -> "underwriting"
      [] branch = "sanction" -> "completed"
      [] branch = "approval" -> "approved"
      [] OTHER -> stage

\* response.agentType
AgentOf(branch) ==
    CASE branch = "form" -> "sales"
      [] branch = "greeting" -> "sales"
      [] branch = "verification" -> "verification"
      [] branch = "credit" -> "underwriting"
      [] branch = "sanction" -> "sanction"
      [] branch = "approval" -> "underwriting"
      [] OTHER -> "master"

\* response.messageType (absent: "none")
MessageTypeOf(branch) ==
    CASE branch = "form" -> "loan_options"
      [] branch = "greeting" -> "form"
      [] branch = "sanction" -> "download_link"
      [] OTHER -> "none"

NoLetter == -1
NoScore == 0

\* EMI factors of the three loan options, as n / 10000
Factor36 == 332
Factor48 == 266
Factor60 == 227

\* Math.round(amount * factor); NaN for the amount NaN
OptionEmi(amount, num) == IF amount = NaN THEN NaN ELSE RoundMul(amount, num)

\* mutant: the options are listed from the longest tenure to the shortest
LoanOptionsDescending(amount) ==
    <<[index |-> 1, amount |-> amount, tenure |-> 60, interest_rate |-> 130,
       emi |-> OptionEmi(amount, Factor60)],
      [index |-> 2, amount |-> amount, tenure |-> 48, interest_rate |-> 125,
       emi |-> OptionEmi(amount, Factor48)],
      [index |-> 3, amount |-> amount, tenure |-> 36, interest_rate |-> 120,
       emi |-> OptionEmi(amount, Factor36)]>>

\* const options = [ ... ] of the form branch; interest rates in tenths
LoanOptions(amount) ==
    <<[index |-> 1, amount |-> amount, tenure |-> 36, interest_rate |-> 120,
       emi |-> OptionEmi(amount, Factor36)],
      [index |-> 2, amount |-> amount, tenure |-> 48, interest_rate |-> 125,
       emi |-> OptionEmi(amount, Factor48)],
      [index |-> 3, amount |-> amount, tenure |-> 60, interest_rate |-> 130,
       emi |-> OptionEmi(amount, Factor60)]>>

NoReply ==
    [session |-> NoId, given |-> NoId, form |-> NoForm, branch |-> "none",
     agentType |-> "none", messageType |-> "none", letterId |-> NoLetter,
     score |-> NoScore, options |-> <<>>]

\* scores the credit check can draw: both ends of its range
Scores == {ScoreBase, ScoreBase + ScoreSpan - 1}

\* the handler's effect on the server's stores and its response
ServerChat(sessionId, msg, form, score) ==
    LET session == SessionOf(sessionId, now)
        state   == Lookup(sessionData, session)
        branch  == Branch(state.stage, msg, form)
        state1  == IF branch = "form"
                   THEN [state EXCEPT !.customerData = <<CustomerOf(form[1])>>]
                   ELSE state
        state2  == [state1 EXCEPT !.stage = NextStage(branch, state.stage)]
    IN  /\ handled < MaxRequests
        /\ handled' = handled + 1
        /\ branch = "credit" \/ score = NoScore
        /\ branch = "credit" => score # NoScore
        /\ sessionData' = Store(sessionData, session, state2)
        /\ applications' =
             IF branch = "approval"
             THEN Append(applications, Application(state, now))
             ELSE applications
        /\ appSession' =
             IF branch = "approval" THEN Append(appSession, session)
             ELSE appSession
        /\ sanctionLetters' =
             IF branch = "sanction"
             THEN Append(sanctionLetters, SanctionLetter(state, now))
             ELSE sanctionLetters
        /\ letterSession' =
             IF branch = "sanction" THEN Append(letterSession, session)
             ELSE letterSession
        /\ reply' = [session |-> session, given |-> sessionId, form |-> form,
                     branch |-> branch,
                     options |-> IF branch = "form"
                                 THEN LoanOptions(state2.customerData[1].loanAmount)
                                 ELSE <<>>,
                     agentType |-> AgentOf(branch),
                     messageType |-> MessageTypeOf(branch),
                     letterId |-> IF branch = "sanction" THEN now ELSE NoLetter,
                     score |-> score]

\* a chat request from any client
ChatMessage(sessionId, msg, form, score) ==
    /\ ServerChat(sessionId, msg, form, score)
    /\ UNCHANGED <<now, retryVars, chatVars, extVars>>

\* a chat request carrying a message
PostMessage ==
    \E sessionId \in ClientIds \cup DOMAIN sessionData \cup {NoId},
       msg \in Messages, score \in Scores \cup {NoScore} :
        ChatMessage(sessionId, msg, NoForm, score)

\* a chat request carrying a submitted form
PostForm ==
    \E sessionId \in ClientIds \cup DOMAIN sessionData \cup {NoId},
       fd \in Forms :
        ChatMessage(sessionId, {}, <<fd>>, NoScore)

\* a millisecond passes
Tick ==
    /\ now < MaxTime
    /\ now' = now + 1
    /\ UNCHANGED <<sessionData, applications, sanctionLetters, reply,
                   appSession, letterSession, retryVars, chatVars, handled,
                   extVars>>

(***************************************************************************)
(* app.js: GET /api/download/sanction-letter/:letterId                     *)
(***************************************************************************)
\* largest number of letters sent for download
MaxDownloads == 2

\* index of sanctionLetters.find(l => l.id === letterId), 0 when undefined
FindLetter(letters, letterId) ==
    IF \E i \in 1..Len(letters) : letters[i].id = letterId
    THEN CHOOSE i \in 1..Len(letters) :
            /\ letters[i].id = letterId
            /\ \A j \in 1..(i - 1) : letters[j].id # letterId
    ELSE 0

\* mutant: the download regenerates the letter
DownloadedAnew(letter, t) ==
    [letter EXCEPT !.downloaded_count = @ + 1, !.generated_at = t]

\* letter.downloaded_count++
Downloaded(letter, t) == [letter EXCEPT !.downloaded_count = @ + 1]

\* no reset request has settled
NoReset == [session |-> NoId, call |-> 0]

NoDownload == [status |-> 0, letterId |-> NoLetter, reference |-> NoLetter]

\* a history response: the route, count or total_applications, and approved
HistoryResponse(route, count, approved) ==
    [route |-> route, count |-> count, approved |-> approved]

NoHistory == HistoryResponse("none", 0, 0)

\* a history handler sends r and changes nothing
History(r) ==
    /\ history' = r
    /\ UNCHANGED <<serverVars, retryVars, chatVars, downloads, served, resetOf,
                   pageVars>>

\* GET /api/history/applications
HistoryApplications ==
    History(HistoryResponse("applications", Len(applications), 0))

\* GET /api/history/sanction-letters
HistorySanctionLetters ==
    History(HistoryResponse("sanction-letters", Len(sanctionLetters), 0))

\* GET /api/history/statistics
HistoryStatistics ==
    History(HistoryResponse(
              "statistics", Len(applications),
              Cardinality({i \in 1..Len(applications) :
                             applications[i].status = "approved"})))

\* the download handler
Download(letterId) ==
    LET i == FindLetter(sanctionLetters, letterId)
    IN  /\ downloads < MaxDownloads
        /\ IF i = 0
           THEN /\ served' = [status |-> 404, letterId |-> letterId,
                              reference |-> NoLetter]
                /\ UNCHANGED <<sanctionLetters, downloads>>
           ELSE /\ sanctionLetters' =
                     [sanctionLetters EXCEPT ![i] = Downloaded(@, now)]
                /\ downloads' = downloads + 1
                /\ served' = [status |-> 200, letterId |-> letterId,
                              reference |-> sanctionLetters[i].id]
        /\ UNCHANGED <<sessionData, applications, now, reply, appSession,
                       letterSession, handled, resetOf, pageVars, retryVars,
                       chatVars, history>>

\* a download request for a letter id a reply announced, or for another
DownloadSome ==
    \E letterId \in {sanctionLetters[i].id : i \in 1..Len(sanctionLetters)}
                      \cup {NoLetter} :
        Download(letterId)

\* initial value of the state outside the chat handler, withRetry, the hook
\* and the EMI calculator
\* useState of VerificationPage
VerificationPageInit ==
    /\ activeStep = 0
    /\ loading = FALSE
    /\ otpSent = FALSE
    /\ aadhaarVerified = FALSE
    /\ phoneVerified = FALSE
    /\ addressVerified = FALSE

\* useState of App and of ChatContainer; no verification page is mounted
AppInit ==
    /\ currentPage = "landing"
    /\ verificationData = Null
    /\ verificationResult = Null
    /\ chatMounted = FALSE
    /\ pendingVerification = FALSE
    /\ verificationProcessed = FALSE
    /\ chatCustomer = FALSE
    /\ VerificationPageInit
    /\ waiting = {}
    /\ runs = 0
    /\ completed = <<>>

PageInit ==
    /\ downloads = 0
    /\ served = NoDownload
    /\ history = NoHistory
    /\ resetOf = NoReset
    /\ formErrors = {}
    /\ submitted = NoForm
    /\ selected = NoFile
    /\ alerted = "none"
    /\ selects = 0
    /\ AppInit

\* the landing page is not mounted
CalcIdle ==
    /\ loanAmount = 0
    /\ tenure = 0
    /\ rate = 0
    /\ emi = NoEmi
    /\ quoted = <<>>

\* no error simulated, no request made
MockInit ==
    /\ simulateErrors =
         [timeout |-> FALSE, serverError |-> FALSE, notFound |-> FALSE]
    /\ creditSimulateErrors =
         [timeout |-> FALSE, serverError |-> FALSE, notFound |-> FALSE,
          serviceUnavailable |-> FALSE]
    /\ offerSimulateErrors =
         [timeout |-> FALSE, serverError |-> FALSE, notFound |-> FALSE,
          serviceUnavailable |-> FALSE, maintenanceMode |-> FALSE]
    /\ answer = NoAnswer
    /\ mockRequests = 0
    /\ crmLog = <<>>

ExtInit == PageInit /\ CalcIdle /\ MockInit

ServerInit ==
    /\ sessionData = <<>>
    /\ applications = <<>>
    /\ sanctionLetters = <<>>
    /\ now = 0
    /\ handled = 0
    /\ reply = NoReply
    /\ appSession = <<>>
    /\ letterSession = <<>>

(***************************************************************************)
(* chatApi.ts: withRetry                                                   *)
(***************************************************************************)
\* DEFAULT_RETRY_CONFIG
DefaultMaxRetries == 3
BaseDelay == 1000
MaxDelay == 10000
\* { ...DEFAULT_RETRY_CONFIG, maxRetries: 2 } of uploadFile and downloadSanctionLetter
UploadMaxRetries == 2
\* Math.random() * 1000 lies in [0, 1000): its least and greatest whole value
JitterSpan == 1000
Jitters == {0, JitterSpan - 1}

\* HTTP statuses an attempt can fail with; 0 stands for no response at all
\* (timeout, connection lost), where error.response is undefined
NoStatus == 0
Statuses == {NoStatus, 400, 408, 429, 499, 500}

\* errors an attempt can reject with: axios errors, and any other exception
Errors ==
    [axios : {TRUE}, status : Statuses] \cup {[axios |-> FALSE, status |-> NoStatus]}

\* mutant: status > 400, so that 400 itself is retried
RethrownAbove400(err) ==
    /\ err.axios
    /\ err.status > 400
    /\ err.status < 500
    /\ err.status # 408
    /\ err.status # 429

\* if (axios.isAxiosError(error)) { const status = error.response?.status;
\*   if (status && status >= 400 && status < 500 && status !== 408 && status !== 429) throw error; }
Rethrown(err) ==
    /\ err.axios
    /\ err.status # NoStatus
    /\ err.status >= 400
    /\ err.status < 500
    /\ err.status # 408
    /\ err.status # 429

\* mutant: gives up one attempt early
LastAttemptEarly(a, max) == a + 1 = max

\* if (attempt === config.maxRetries) break;
LastAttempt(a, max) == a = max

RECURSIVE Pow2(_)
\* Math.pow(2, n)
Pow2(n) == IF n = 0 THEN 1 ELSE 2 * Pow2(n - 1)

Min(a, b) == IF a <= b THEN a ELSE b

\* Math.min(config.baseDelay * Math.pow(2, attempt) + Math.random() * 1000, config.maxDelay)
Delay(a, jitter) == Min(BaseDelay * Pow2(a) + jitter, MaxDelay)

\* withRetry(operation, config) is called
RetryStart(max) ==
    /\ rPc = "call"
    /\ rMax = max
    /\ attempt = 0
    /\ lastError = Null
    /\ thrown = Null
    /\ rErrors = <<>>
    /\ rSleeps = <<>>

\* no withRetry call is under way
RetryIdle ==
    /\ rPc = "idle"
    /\ rMax = DefaultMaxRetries
    /\ attempt = 0
    /\ lastError = Null
    /\ thrown = Null
    /\ rErrors = <<>>
    /\ rSleeps = <<>>

\* return await operation(): the attempt resolves
AttemptSucceeds ==
    /\ rPc = "call"
    /\ rPc' = "returned"
    /\ UNCHANGED <<rMax, attempt, lastError, thrown, rErrors, rSleeps>>
    /\ UNCHANGED <<serverVars, chatVars, extVars>>

\* the attempt rejects with err: the catch block up to its throw, its break
\* (followed by throw lastError) or its await sleep(delay)
AttemptFails(err, jitter) ==
    /\ rPc = "call"
    /\ lastError' = <<err>>
    /\ rErrors' = Append(rErrors, err)
    /\ IF Rethrown(err)
       THEN /\ rPc' = "thrown"
            /\ thrown' = <<err>>
            /\ rSleeps' = rSleeps
       ELSE IF LastAttempt(attempt, rMax)
       THEN /\ rPc' = "thrown"
            /\ thrown' = lastError'
            /\ rSleeps' = rSleeps
       ELSE /\ rPc' = "sleeping"
            /\ thrown' = thrown
            /\ rSleeps' = Append(rSleeps, Delay(attempt, jitter))
    /\ UNCHANGED <<rMax, attempt>>
    /\ UNCHANGED <<serverVars, chatVars, extVars>>

AttemptFailsSome == \E err \in Errors, jitter \in Jitters : AttemptFails(err, jitter)

\* the sleep ends: attempt++ and the loop test attempt <= config.maxRetries
Wake ==
    /\ rPc = "sleeping"
    /\ attempt' = attempt + 1
    /\ IF attempt' <= rMax
       THEN rPc' = "call" /\ thrown' = thrown
       ELSE rPc' = "thrown" /\ thrown' = lastError
    /\ UNCHANGED <<rMax, lastError, rErrors, rSleeps>>
    /\ UNCHANGED <<serverVars, chatVars, extVars>>

RetryNext == AttemptSucceeds \/ AttemptFailsSome \/ Wake

(***************************************************************************)
(* useChat.ts: the chat hook.  A call runs up to its await in one step and *)
(* from the settling of its request to its end in another; the calls that  *)
(* await their request are held in inFlight with the values their closure  *)
(* captured.                                                               *)
(***************************************************************************)
\* largest number of sendMessage, uploadFile and resetConversation calls
MaxCalls == 3

Msg(kind, sender, messageType, agentType) ==
    [kind |-> kind, sender |-> sender, messageType |-> messageType,
     agentType |-> agentType]

\* the message the hook starts with and resets to
WelcomeMsg == Msg("welcome", "agent", "text", "master")

\* x || d on strings: the absent value "none" is falsy
OrElse(x, d) == IF x = "none" THEN d ELSE x

\* bodies chatApi.sendMessage can resolve with: a reply as app.js sends it,
\* a reply that carries a sanctionLetter, and a body without context or message
SendResponses ==
    {[context |-> <<[sessionId |-> <<"client", 1>>, currentAgent |-> "sales"]>>,
      message |-> TRUE, messageType |-> "none", agentType |-> "sales",
      sanctionLetter |-> FALSE],
     [context |-> <<[sessionId |-> <<"client", 1>>, currentAgent |-> "sanction"]>>,
      message |-> TRUE, messageType |-> "download_link", agentType |-> "none",
      sanctionLetter |-> TRUE],
     [context |-> Null, message |-> FALSE, messageType |-> "none",
      agentType |-> "none", sanctionLetter |-> FALSE]}

\* bodies chatApi.uploadFile can resolve with
UploadResponses ==
    {[context |-> <<[sessionId |-> <<"client", 1>>, currentAgent |-> "underwriting"]>>,
      agentType |-> "underwriting", followUpMessage |-> TRUE],
     [context |-> Null, agentType |-> "none", followUpMessage |-> FALSE]}

\* err.message of the ApiError a failed request rejects with
ApiErrors == {"Server error. Please try again later."}

\* conversationContext?.sessionId
SessionIdOf(ctx) == IF ctx = Null THEN NoId ELSE ctx[1].sessionId

\* the call record held while its request is awaited
Call(kind, form) ==
    [id |-> calls + 1, kind |-> kind, form |-> form, agent |-> currentAgent,
     sessionId |-> SessionIdOf(conversationContext), gen |-> generation]

ChatInit ==
    /\ messages = <<WelcomeMsg>>
    /\ isTyping = FALSE
    /\ isLoading = FALSE
    /\ currentAgent = "master"
    /\ conversationContext = Null
    /\ error = "none"
    /\ inFlight = {}
    /\ timers = {}
    /\ calls = 0
    /\ generation = 0

\* sendMessage(content, formData), content not blank or formData given;
\* submitForm(formData) is sendMessage('Form submitted ...', formData)
SendStart(form) ==
    /\ ~isLoading
    /\ calls < MaxCalls
    /\ error' = "none"
    /\ isLoading' = TRUE
    /\ messages' = Append(messages,
                          Msg("user", "user", IF form THEN "form" ELSE "text", "none"))
    /\ isTyping' = TRUE
    /\ inFlight' = inFlight \cup {Call("send", form)}
    /\ calls' = calls + 1
    /\ UNCHANGED <<currentAgent, conversationContext, timers, generation>>

SendMessage(form) ==
    /\ SendStart(form)
    /\ UNCHANGED <<serverVars, retryVars, extVars>>

SendMessageSome == \E form \in BOOLEAN : SendMessage(form)

\* messages appended by sendMessage once its request has resolved with r
SendReplies(c, r) ==
    (IF r.message
     THEN <<Msg("reply", "agent", OrElse(r.messageType, "text"),
                OrElse(r.agentType, c.agent))>>
     ELSE <<>>)
    \o (IF r.sanctionLetter
        THEN <<Msg("letter", "agent", "download_link", "sanction")>>
        ELSE <<>>)

\* sendMessage from the settling of its request with r to its end
SendCommit(c, r) ==
    /\ c \in inFlight
    /\ c.kind = "send"
    /\ isTyping' = FALSE
    /\ IF r.context # Null
       THEN /\ conversationContext' = r.context
            /\ currentAgent' = r.context[1].currentAgent
       ELSE UNCHANGED <<conversationContext, currentAgent>>
    /\ messages' = messages \o SendReplies(c, r)
    /\ isLoading' = FALSE
    /\ inFlight' = inFlight \ {c}
    /\ UNCHANGED <<error, timers, calls, generation>>

\* the request of sendMessage call c resolves with r
SendResolves(c, r) ==
    /\ SendCommit(c, r)
    /\ UNCHANGED <<serverVars, retryVars, extVars>>

SendResolvesSome == \E c \in inFlight, r \in SendResponses : SendResolves(c, r)

\* the catch block of sendMessage without the finally block after it
SendRejectsLoading(c, e) ==
    /\ c \in inFlight
    /\ c.kind = "send"
    /\ isTyping' = FALSE
    /\ error' = e
    /\ messages' = Append(messages, Msg("error", "agent", "system", c.agent))
    /\ isLoading' = isLoading
    /\ inFlight' = inFlight \ {c}
    /\ UNCHANGED <<currentAgent, conversationContext, timers, calls, generation>>
    /\ UNCHANGED <<serverVars, retryVars, extVars>>

\* the request of sendMessage call c rejects: the catch block
SendRejects(c, e) ==
    /\ c \in inFlight
    /\ c.kind = "send"
    /\ isTyping' = FALSE
    /\ error' = e
    /\ messages' = Append(messages, Msg("error", "agent", "system", c.agent))
    /\ isLoading' = FALSE
    /\ inFlight' = inFlight \ {c}
    /\ UNCHANGED <<currentAgent, conversationContext, timers, calls, generation>>
    /\ UNCHANGED <<serverVars, retryVars, extVars>>

SendRejectsSome == \E c \in inFlight, e \in ApiErrors : SendRejects(c, e)

\* uploadFile(file)
UploadStart ==
    /\ ~isLoading
    /\ calls < MaxCalls
    /\ error' = "none"
    /\ isLoading' = TRUE
    /\ messages' = Append(messages, Msg("upload", "user", "file", "none"))
    /\ isTyping' = TRUE
    /\ inFlight' = inFlight \cup {Call("upload", FALSE)}
    /\ calls' = calls + 1
    /\ UNCHANGED <<currentAgent, conversationContext, timers, generation>>

UploadFile == UploadStart /\ UNCHANGED <<serverVars, retryVars, extVars>>

\* the request of uploadFile call c resolves with r
UploadResolves(c, r) ==
    /\ c \in inFlight
    /\ c.kind = "upload"
    /\ isTyping' = FALSE
    /\ IF r.context # Null
       THEN /\ conversationContext' = r.context
            /\ currentAgent' = r.context[1].currentAgent
       ELSE UNCHANGED <<conversationContext, currentAgent>>
    /\ messages' = Append(messages,
                          Msg("uploaded", "agent", "text", OrElse(r.agentType, c.agent)))
    /\ timers' = IF r.followUpMessage
                 THEN timers \cup {[id |-> c.id, agent |-> OrElse(r.agentType, c.agent)]}
                 ELSE timers
    /\ isLoading' = FALSE
    /\ inFlight' = inFlight \ {c}
    /\ UNCHANGED <<error, calls, generation>>
    /\ UNCHANGED <<serverVars, retryVars, extVars>>

UploadResolvesSome == \E c \in inFlight, r \in UploadResponses : UploadResolves(c, r)

\* the request of uploadFile call c rejects: the catch block
UploadRejects(c, e) ==
    /\ c \in inFlight
    /\ c.kind = "upload"
    /\ isTyping' = FALSE
    /\ error' = e
    /\ messages' = Append(messages, Msg("error", "agent", "system", c.agent))
    /\ isLoading' = FALSE
    /\ inFlight' = inFlight \ {c}
    /\ UNCHANGED <<currentAgent, conversationContext, timers, calls, generation>>
    /\ UNCHANGED <<serverVars, retryVars, extVars>>

UploadRejectsSome == \E c \in inFlight, e \in ApiErrors : UploadRejects(c, e)

\* the setTimeout callback of uploadFile adds the follow-up message
FollowUp ==
    \E t \in timers :
        /\ messages' = Append(messages, Msg("followup", "agent", "text", t.agent))
        /\ timers' = timers \ {t}
        /\ UNCHANGED <<isTyping, isLoading, currentAgent, conversationContext,
                       error, inFlight, calls, generation>>
        /\ UNCHANGED <<serverVars, retryVars, extVars>>

\* resetConversation(): it tests nothing before it starts
ResetConversation ==
    /\ calls < MaxCalls
    /\ isLoading' = TRUE
    /\ inFlight' = inFlight \cup {Call("reset", FALSE)}
    /\ calls' = calls + 1
    /\ UNCHANGED <<messages, isTyping, currentAgent, conversationContext, error,
                   timers, generation>>
    /\ UNCHANGED <<serverVars, retryVars, extVars>>

\* mutant: the New Conversation button is never disabled
ClickResetWhileLoading == conversationContext # Null /\ ResetConversation

\* ChatContainer: the New Conversation button is rendered once there is a
\* conversationContext and is disabled while isLoading
ClickReset == conversationContext # Null /\ ~isLoading /\ ResetConversation

\* resetConversation from the resolving of its request to its end
ResetCommit(c) ==
    /\ c \in inFlight
    /\ c.kind = "reset"
    /\ messages' = <<WelcomeMsg>>
    /\ conversationContext' = Null
    /\ currentAgent' = "master"
    /\ error' = "none"
    /\ isLoading' = FALSE
    /\ inFlight' = inFlight \ {c}
    /\ generation' = generation + 1
    /\ UNCHANGED <<isTyping, timers, calls>>

\* chatApi.resetConversation resolves: the chat is cleared
ResetResolves ==
    \E c \in inFlight :
        /\ ResetCommit(c)
        /\ UNCHANGED <<serverVars, retryVars, extVars>>

\* resetConversation from the rejecting of its request to its end
ResetFail(c, e) ==
    /\ c \in inFlight
    /\ c.kind = "reset"
    /\ error' = e
    /\ isLoading' = FALSE
    /\ inFlight' = inFlight \ {c}
    /\ UNCHANGED <<messages, isTyping, currentAgent, conversationContext,
                   timers, calls, generation>>

\* chatApi.resetConversation rejects: the catch block
ResetRejects ==
    \E c \in inFlight, e \in ApiErrors :
        /\ ResetFail(c, e)
        /\ UNCHANGED <<serverVars, retryVars, extVars>>

ChatNext ==
    \/ SendMessageSome
    \/ SendResolvesSome
    \/ SendRejectsSome
    \/ UploadFile
    \/ UploadResolvesSome
    \/ UploadRejectsSome
    \/ FollowUp
    \/ ResetConversation
    \/ ResetResolves
    \/ ResetRejects

(***************************************************************************)
(* useChat.ts against the chat server: the request of a call is handled by *)
(* the server and the call continues with the server's response            *)
(***************************************************************************)
\* the body res.json(response) sends for the branch that answered
ResponseOf(session, branch) ==
    [context |-> <<[sessionId |-> session, currentAgent |-> "master"]>>,
     message |-> TRUE,
     messageType |-> MessageTypeOf(branch),
     agentType |-> AgentOf(branch),
     sanctionLetter |-> FALSE]

\* the request of sendMessage call c, carrying msg or the form fd, is handled
\* by the chat endpoint and the call continues with the response
ServerAnswers(c, msg, fd, score) ==
    LET form    == IF c.form THEN <<fd>> ELSE NoForm
        text    == IF c.form THEN {} ELSE msg
        session == SessionOf(c.sessionId, now)
        branch  == Branch(Lookup(sessionData, session).stage, text, form)
    IN  /\ c \in inFlight
        /\ c.kind = "send"
        /\ ServerChat(c.sessionId, text, form, score)
        /\ SendCommit(c, ResponseOf(session, branch))
        /\ resetOf' = IF c.id > resetOf.call THEN NoReset ELSE resetOf
        /\ UNCHANGED <<now, downloads, served, history, pageVars, retryVars>>

ServerAnswersSome ==
    \E c \in inFlight, msg \in Messages, fd \in Forms, score \in Scores \cup {NoScore} :
        ServerAnswers(c, msg, fd, score)

\* error.message of the axios error for a 404 response
NotFoundError == "Request failed with status code 404"

\* POST /api/chat/reset reaches app.js, which has no such route: Express
\* answers 404, withRetry rethrows it and the catch block of the hook runs
ResetNotFound ==
    \E c \in inFlight :
        /\ ResetFail(c, NotFoundError)
        /\ resetOf' = [session |-> c.sessionId, call |-> c.id]
        /\ UNCHANGED <<serverVars, retryVars, downloads, served, history, pageVars>>

\* the reset of the chat backend: the session's collected data is cleared and
\* its stage set back to initiation; the session itself stays
ResetSession(sd, session) ==
    IF session \in DOMAIN sd THEN [sd EXCEPT ![session] = NewSession] ELSE sd

\* POST /api/chat/reset is served by the chat backend and the hook clears
\* the chat
ResetServed ==
    \E c \in inFlight :
        /\ ResetCommit(c)
        /\ sessionData' = ResetSession(sessionData, c.sessionId)
        /\ resetOf' = [session |-> c.sessionId, call |-> c.id]
        /\ UNCHANGED <<applications, sanctionLetters, now, reply, appSession,
                       letterSession, handled, retryVars, downloads, served, history,
                       pageVars>>

SessionNext ==
    \/ SendMessageSome
    \/ ServerAnswersSome
    \/ ResetConversation
    \/ ResetNotFound
    \/ ResetServed
    \/ Tick

(***************************************************************************)
(* HistoryPage.tsx: CustomerInfoForm, and LoanOptionsDisplay.tsx           *)
(***************************************************************************)
\* the number fields of the form the server describes: name, min, max
\* (NoMax for a field without a max)
NoMax == 0

NumberFields ==
    {[name |-> "age", min |-> MinAge, max |-> MaxAge],
     [name |-> "monthly_salary", min |-> MinSalary, max |-> NoMax],
     [name |-> "loan_amount", min |-> MinLoanAmount, max |-> MaxLoanAmount]}

\* the error validateForm gives a required number field, "" for none
FieldError(value, field) ==
    IF value = Undefined THEN "required"
    ELSE IF value = Text THEN "number"
    ELSE IF field.max # NoMax /\ value > field.max THEN "max"  \* written last
    ELSE IF value < field.min THEN "min"
    ELSE ""

\* newErrors of validateForm; the text fields of the forms are valid
ValidateForm(values) ==
    {<<field.name, FieldError(values[field.name], field)>> :
        field \in {f \in NumberFields : FieldError(values[f.name], f) # ""}}

\* handleSubmit: the form is handed to onSubmit only when it has no error
HandleSubmit(values) ==
    /\ submitted = NoForm
    /\ formErrors' = ValidateForm(values)
    /\ submitted' = IF ValidateForm(values) = {} THEN <<values>> ELSE NoForm
    /\ UNCHANGED <<serverVars, retryVars, chatVars, downloads, served, history,
                   resetOf, fileVars, calcVars, mockVars, appVars>>

HandleSubmitSome == \E values \in AnyForms : HandleSubmit(values)

\* the form handed to onSubmit is posted with the session of the page
PostSubmitted ==
    /\ submitted # NoForm
    /\ \E sessionId \in ClientIds :
           ServerChat(sessionId, {}, submitted, NoScore)
    /\ submitted' = NoForm
    /\ UNCHANGED <<now, retryVars, chatVars, downloads, served, history, resetOf,
                   formErrors, fileVars, calcVars,
                   mockVars, appVars>>

\* a chat request carrying any form, sent by any client
PostAnyForm ==
    \E sessionId \in ClientIds \cup {NoId}, fd \in AnyForms :
        ChatMessage(sessionId, {}, <<fd>>, NoScore)

\* options.slice(0, 3)
Displayed(options) ==
    SubSeq(options, 1, IF Len(options) < 3 THEN Len(options) ELSE 3)

\* isRecommended = index === 0: the position of the recommended card
Recommended == 1

FormNext == HandleSubmitSome \/ PostSubmitted \/ PostAnyForm

(***************************************************************************)
(* ChatInput.tsx: the file input of the chat                               *)
(***************************************************************************)
MaxSelects == 3

\* maxSize = 5 * 1024 * 1024
MaxSize == 5242880

\* mutant: GIF images are allowed too
AllowedTypesAndGif ==
    {"application/pdf", "image/jpeg", "image/png", "image/jpg", "image/gif"}

\* allowedTypes
AllowedTypes == {"application/pdf", "image/jpeg", "image/png", "image/jpg"}

\* the files a customer can select: every allowed type, a GIF image and a
\* file of unknown type, at the maximum size and one byte above it
Files ==
    [type : AllowedTypes \cup {"image/gif", ""}, size : {MaxSize, MaxSize + 1}]

\* handleFileSelect: a file of a type not allowed or above the maximum size
\* raises an alert; any other file is handed to uploadFile of the chat hook,
\* which returns at once while a call is loading
HandleFileSelect(file) ==
    /\ selects < MaxSelects
    /\ selects' = selects + 1
    /\ selected' = file
    /\ IF file.type \notin AllowedTypes
       THEN alerted' = "type" /\ UNCHANGED chatVars
       ELSE IF file.size > MaxSize
       THEN alerted' = "size" /\ UNCHANGED chatVars
       ELSE /\ alerted' = "none"
            /\ IF isLoading THEN UNCHANGED chatVars ELSE UploadStart
    /\ UNCHANGED <<serverVars, retryVars, downloads, served, history, resetOf,
                   formVars, calcVars, mockVars, appVars>>

HandleFileSelectSome == \E file \in Files : HandleFileSelect(file)

FileNext ==
    \/ HandleFileSelectSome
    \/ UploadResolvesSome
    \/ UploadRejectsSome
    \/ FollowUp

(***************************************************************************)
(* LandingPage.tsx: calculateEMI, and the EMIs of the loan options         *)
(***************************************************************************)
RECURSIVE GCD(_, _)

GCD(a, b) == IF b = 0 THEN a ELSE GCD(b, a % b)

RECURSIVE Pow(_, _)

\* Math.pow(base, n) for a natural n
Pow(base, n) == IF n = 0 THEN 1 ELSE base * Pow(base, n - 1)

\* rate / 12 / 100 as the fraction RateNum(rate) / RateDen(rate)
RateNum(r) == r \div GCD(r, 1200)

RateDen(r) == 1200 \div GCD(r, 1200)

\* Math.round(num / den) for positive num and den
RoundDiv(num, den) == (2 * num + den) \div (2 * den)

\* mutant: the growth factor is not divided by the factor of all months
CalculateEMIGrowing(principal, months, r) ==
    LET a == RateNum(r)
        b == RateDen(r)
    IN  RoundDiv(principal * a * Pow(a + b, months),
                 b * (Pow(a + b, 1) - Pow(b, 1)) * Pow(b, months - 1))

\* calculateEMI: principal * r * (1 + r)^months / ((1 + r)^months - 1),
\* rounded, with r = a / b
CalculateEMI(principal, months, r) ==
    LET a == RateNum(r)
        b == RateDen(r)
    IN  RoundDiv(principal * a * Pow(a + b, months),
                 b * (Pow(a + b, months) - Pow(b, months)))

\* inputs of calculateEMI whose EMI is computed without overflow: rates in
\* percent a year whose monthly rate is 1/4, 1/2, 1 and 2
Principals == {1, 2, 3, 1000, MinLoanAmount, MinLoanAmount + 1, 60000}

Months == {1, 2, 3, 4, 6}

Rates == {300, 600, 1200, 2400}

\* loan amounts of a form: small ones, the bounds of the form, the limit
OptionAmounts ==
    {1, 100, MinLoanAmount, MinLoanAmount + 1, PreApprovedLimit,
     MaxLoanAmount}

\* the page is rendered with some inputs
CalcInit ==
    /\ loanAmount \in Principals
    /\ tenure \in Months
    /\ rate \in Rates
    /\ emi = CalculateEMI(loanAmount, tenure, rate)
    /\ quoted = <<>>

\* setLoanAmount, and the render that follows
SetLoanAmount(value) ==
    /\ loanAmount' = value
    /\ emi' = CalculateEMI(value, tenure, rate)
    /\ UNCHANGED <<tenure, rate, quoted>>
    /\ UNCHANGED <<serverVars, retryVars, chatVars, downloads, served, history,
                   resetOf, formVars, fileVars, mockVars, appVars>>

\* setTenure, and the render that follows
SetTenure(value) ==
    /\ tenure' = value
    /\ emi' = CalculateEMI(loanAmount, value, rate)
    /\ UNCHANGED <<loanAmount, rate, quoted>>
    /\ UNCHANGED <<serverVars, retryVars, chatVars, downloads, served, history,
                   resetOf, formVars, fileVars, mockVars, appVars>>

\* the loan options of a form with the loan amount
Quote(amount) ==
    /\ quoted' = LoanOptions(amount)
    /\ UNCHANGED <<loanAmount, tenure, rate, emi>>
    /\ UNCHANGED <<serverVars, retryVars, chatVars, downloads, served, history,
                   resetOf, formVars, fileVars, mockVars, appVars>>

EmiNext ==
    \/ \E value \in Principals : SetLoanAmount(value)
    \/ \E value \in Months : SetTenure(value)
    \/ \E amount \in OptionAmounts : Quote(amount)

(***************************************************************************)
(* mock-apis.js: the CRM, credit bureau and offer mart mock services and   *)
(* the combined server; server.js and app.js: GET /offers/:userId          *)
(***************************************************************************)
MaxMockRequests == 4

\* customerData, creditScoreData and offerData (interest rates in tenths)
customerData ==
    [u \in {"CUST001", "CUST003"} |-> MockRecord(u, 0, 0, 0)]

creditScoreData ==
    [u \in {"CUST001", "CUST003"} |->
        MockRecord(u, IF u = "CUST001" THEN 785 ELSE 650, 0, 0)]

offerData ==
    [u \in {"CUST001", "CUST003"} |->
        IF u = "CUST001" THEN MockRecord(u, 0, 500000, 125)
        ELSE MockRecord(u, 0, 200000, 158)]

\* names every object literal inherits from Object.prototype
ObjectPrototype == {"constructor", "__proto__"}

\* obj[key] of an object literal: <<value>>, or Null for undefined; an
\* inherited member is a value without the fields of a record
Get(obj, key) ==
    IF key \in DOMAIN obj THEN <<obj[key]>>
    ELSE IF key \in ObjectPrototype THEN <<NoData>>
    ELSE Null

\* the userId of a request: two known customers, an unknown one and a name
\* of Object.prototype
UserIds == {"CUST001", "CUST003", "INVALID", "constructor"}

\* the errorType of a simulate-error request
ErrorTypes ==
    {"timeout", "serverError", "notFound", "serviceUnavailable",
     "maintenanceMode", "bogus"}

\* the default offer (interest rate in tenths)
DefaultOffer(userId) == MockRecord(userId, 0, 500000, 125)

\* the flags after POST /simulate-error
Simulated(flags, errorType, enabled) ==
    IF errorType \in DOMAIN flags
    THEN [flags EXCEPT ![errorType] = enabled]
    ELSE flags

\* the response of POST /simulate-error: the message names the error type
\* and tells whether it is enabled
SimulateAnswer(service, flags, errorType, enabled) ==
    IF errorType \in DOMAIN flags
    THEN [Answer(service, "simulate-error", "", 200, "none", NoData, NoData)
            EXCEPT !.message = <<errorType, enabled>>]
    ELSE Answer(service, "simulate-error", "", 400, "none", NoData, NoData)

\* an error response { error: ... }
ErrorAnswer(service, route, userId, status) ==
    Answer(service, route, userId, status, "none", NoData, NoData)

\* mutant: the notFound flag is looked at before the serverError flag
CrmAnswerNotFoundFirst(flags, userId) ==
    LET customer == Get(customerData, userId)
    IN  IF flags.timeout THEN ErrorAnswer("crmApp", "crm", userId, 408)
        ELSE IF flags.notFound THEN ErrorAnswer("crmApp", "crm", userId, 404)
        ELSE IF flags.serverError THEN ErrorAnswer("crmApp", "crm", userId, 500)
        ELSE IF customer # Null
        THEN Answer("crmApp", "crm", userId, 200, "true", customer[1], NoData)
        ELSE Answer("crmApp", "crm", userId, 404, "false", NoData, NoData)

\* crmApp.get('/crm/:userId'); the timeout response is sent 5 s later
CrmAnswer(flags, userId) ==
    LET customer == Get(customerData, userId)
    IN  IF flags.timeout THEN ErrorAnswer("crmApp", "crm", userId, 408)
        ELSE IF flags.serverError THEN ErrorAnswer("crmApp", "crm", userId, 500)
        ELSE IF flags.notFound THEN ErrorAnswer("crmApp", "crm", userId, 404)
        ELSE IF customer # Null
        THEN Answer("crmApp", "crm", userId, 200, "true", customer[1], NoData)
        ELSE Answer("crmApp", "crm", userId, 404, "false", NoData, NoData)

\* creditApp.get('/credit-score/:userId')
CreditAnswer(flags, userId) ==
    LET creditData == Get(creditScoreData, userId)
    IN  IF flags.timeout THEN ErrorAnswer("creditApp", "credit-score", userId, 408)
        ELSE IF flags.serviceUnavailable
        THEN ErrorAnswer("creditApp", "credit-score", userId, 503)
        ELSE IF flags.serverError
        THEN ErrorAnswer("creditApp", "credit-score", userId, 500)
        ELSE IF flags.notFound
        THEN ErrorAnswer("creditApp", "credit-score", userId, 404)
        ELSE IF creditData # Null
        THEN Answer("creditApp", "credit-score", userId, 200, "true",
                    creditData[1], NoData)
        ELSE Answer("creditApp", "credit-score", userId, 404, "false",
                    NoData, NoData)

\* offerApp.get('/offers/:userId')
OfferAnswer(flags, userId) ==
    LET offers == Get(offerData, userId)
    IN  IF flags.maintenanceMode THEN ErrorAnswer("offerApp", "offers", userId, 503)
        ELSE IF flags.timeout THEN ErrorAnswer("offerApp", "offers", userId, 408)
        ELSE IF flags.serviceUnavailable
        THEN ErrorAnswer("offerApp", "offers", userId, 503)
        ELSE IF flags.serverError THEN ErrorAnswer("offerApp", "offers", userId, 500)
        ELSE IF flags.notFound THEN ErrorAnswer("offerApp", "offers", userId, 404)
        ELSE IF offers # Null
        THEN Answer("offerApp", "offers", userId, 200, "true", offers[1], NoData)
        ELSE Answer("offerApp", "offers", userId, 404, "false", NoData, NoData)

\* the offer response of the combined server and of server.js: the limit
\* and the rate at the top level, and the record
OfferOrDefault(service, userId) ==
    LET offers == Get(offerData, userId)
    IN  IF offers # Null
        THEN Answer(service, "offers", userId, 200, "true", offers[1],
                    MockRecord("", 0, offers[1].limit, offers[1].rate))
        ELSE Answer(service, "offers", userId, 200, "true",
                    DefaultOffer(userId), DefaultOffer(""))

\* combinedApp.get('/offers/:userId')
CombinedOfferAnswer(flags, userId) ==
    IF flags.maintenanceMode
    THEN ErrorAnswer("combinedApp", "offers", userId, 503)
    ELSE IF flags.timeout THEN ErrorAnswer("combinedApp", "offers", userId, 408)
    ELSE OfferOrDefault("combinedApp", userId)

\* server.js: app.get('/offers/:userId')
ServerOfferAnswer(userId) == OfferOrDefault("server", userId)

\* app.js: app.get('/offers/:userId')
AppOfferAnswer(userId) ==
    Answer("app", "offers", userId, 200, "true", NoData, DefaultOffer(""))

\* values of Math.floor(Math.random() * 150) + 700: the least, the greatest
\* and one between
RandomScores == {700, 777, 849}

\* a top-level creditScore field
TopScore(score) == MockRecord("", score, 0, 0)

\* combinedApp.get('/credit-score/:userId'); first and second are the two
\* random scores the response for an unknown user is built from
CombinedCreditAnswer(flags, userId, first, second) ==
    LET creditData == Get(creditScoreData, userId)
    IN  IF flags.timeout
        THEN ErrorAnswer("combinedApp", "credit-score", userId, 408)
        ELSE IF flags.serviceUnavailable
        THEN ErrorAnswer("combinedApp", "credit-score", userId, 503)
        ELSE IF flags.serverError
        THEN ErrorAnswer("combinedApp", "credit-score", userId, 500)
        ELSE IF creditData # Null
        THEN Answer("combinedApp", "credit-score", userId, 200, "true",
                    creditData[1], TopScore(creditData[1].score))
        ELSE Answer("combinedApp", "credit-score", userId, 200, "true",
                    MockRecord(userId, second, 0, 0), TopScore(first))

\* server.js: app.get('/credit-score/:userId')
ServerCreditAnswer(userId, randomScore) ==
    LET creditData == Get(creditScoreData, userId)
    IN  IF creditData # Null
        THEN Answer("server", "credit-score", userId, 200, "true",
                    creditData[1], TopScore(creditData[1].score))
        ELSE Answer("server", "credit-score", userId, 200, "true",
                    MockRecord(userId, randomScore, 0, 0), TopScore(randomScore))

\* combined-server.js: creditScoreData has no CUST003
combinedCreditScoreData ==
    [u \in {"CUST001"} |-> MockRecord(u, 785, 0, 0)]

\* combined-server.js: app.get('/credit-score/:userId')
CombinedServerCreditAnswer(userId, random) ==
    LET data  == Get(combinedCreditScoreData, userId)
        score == IF data # Null /\ data[1].score # 0 THEN data[1].score
                 ELSE random
    IN  Answer("combined-server", "credit-score", userId, 200, "true",
               IF data # Null THEN data[1] ELSE MockRecord(userId, score, 0, 0),
               TopScore(score))

\* app.js: app.get('/credit-score/:userId')
AppCreditAnswer(userId, score) ==
    Answer("app", "credit-score", userId, 200, "true",
           MockRecord(userId, score, 0, 0), TopScore(score))

\* a request to a mock endpoint is counted
MockRequest ==
    /\ mockRequests < MaxMockRequests
    /\ mockRequests' = mockRequests + 1
    /\ UNCHANGED <<serverVars, retryVars, chatVars, downloads, served, history,
                   resetOf, formVars, fileVars, calcVars, appVars>>

\* crmApp.post('/simulate-error')
CrmSimulate ==
    \E errorType \in ErrorTypes, enabled \in BOOLEAN :
        /\ MockRequest
        /\ simulateErrors' = Simulated(simulateErrors, errorType, enabled)
        /\ answer' = SimulateAnswer("crmApp", simulateErrors, errorType, enabled)
        /\ UNCHANGED <<creditSimulateErrors, offerSimulateErrors, crmLog>>

\* creditApp.post('/simulate-error')
CreditSimulate ==
    \E errorType \in ErrorTypes, enabled \in BOOLEAN :
        /\ MockRequest
        /\ creditSimulateErrors' =
             Simulated(creditSimulateErrors, errorType, enabled)
        /\ answer' = SimulateAnswer("creditApp", creditSimulateErrors,
                                    errorType, enabled)
        /\ UNCHANGED <<simulateErrors, offerSimulateErrors, crmLog>>

\* offerApp.post('/simulate-error')
OfferSimulate ==
    \E errorType \in ErrorTypes, enabled \in BOOLEAN :
        /\ MockRequest
        /\ offerSimulateErrors' =
             Simulated(offerSimulateErrors, errorType, enabled)
        /\ answer' = SimulateAnswer("offerApp", offerSimulateErrors,
                                    errorType, enabled)
        /\ UNCHANGED <<simulateErrors, creditSimulateErrors, crmLog>>

\* a GET request answered with a
MockGet(a) ==
    /\ MockRequest
    /\ answer' = a
    /\ crmLog' = IF a.service = "crmApp" THEN Append(crmLog, a.status)
                 ELSE crmLog
    /\ UNCHANGED <<simulateErrors, creditSimulateErrors, offerSimulateErrors>>

CrmGet == \E userId \in UserIds : MockGet(CrmAnswer(simulateErrors, userId))

CreditGet ==
    \E userId \in UserIds : MockGet(CreditAnswer(creditSimulateErrors, userId))

OfferGet ==
    \E userId \in UserIds : MockGet(OfferAnswer(offerSimulateErrors, userId))

CombinedOfferGet ==
    \E userId \in UserIds :
        MockGet(CombinedOfferAnswer(offerSimulateErrors, userId))

ServerOfferGet == \E userId \in UserIds : MockGet(ServerOfferAnswer(userId))

AppOfferGet == \E userId \in UserIds : MockGet(AppOfferAnswer(userId))

CombinedCreditGet ==
    \E userId \in UserIds, first \in RandomScores, second \in RandomScores :
        MockGet(CombinedCreditAnswer(creditSimulateErrors, userId, first, second))

ServerCreditGet ==
    \E userId \in UserIds, randomScore \in RandomScores :
        MockGet(ServerCreditAnswer(userId, randomScore))

CombinedServerCreditGet ==
    \E userId \in UserIds, random \in RandomScores :
        MockGet(CombinedServerCreditAnswer(userId, random))

AppCreditGet ==
    \E userId \in UserIds, score \in RandomScores :
        MockGet(AppCreditAnswer(userId, score))

\* the credit-score endpoints of the combined mock app and of the servers
CreditNext ==
    \/ CreditSimulate
    \/ CombinedCreditGet
    \/ ServerCreditGet
    \/ CombinedServerCreditGet
    \/ AppCreditGet

MockNext ==
    \/ CrmSimulate
    \/ CreditSimulate
    \/ OfferSimulate
    \/ CrmGet
    \/ CreditGet
    \/ OfferGet
    \/ CombinedOfferGet
    \/ ServerOfferGet
    \/ AppOfferGet

(***************************************************************************)
(* App.tsx, ChatContainer.tsx and VerificationPage.tsx: the pages of the   *)
(* application and the KYC verification started from the chat.  An async   *)
(* handler of the verification page runs up to its await in one step and   *)
(* from the await to its end in another; a handler of a page that was      *)
(* unmounted meanwhile still runs, its state updates having no effect.     *)
(***************************************************************************)
\* largest number of verifications started from the chat
MaxRuns == 2

\* largest number of customer information forms submitted in the chat
MaxForms == 1

\* the 'KYC Verification Complete' message, which carries
\* [CONTINUE_CREDIT_CHECK]
KycMsg == Msg("kyc", "agent", "text", "verification")

\* the verification page is unmounted, or mounted anew: its state is the
\* initial one
VerificationPageFresh ==
    /\ activeStep' = 0
    /\ loading' = FALSE
    /\ otpSent' = FALSE
    /\ aadhaarVerified' = FALSE
    /\ phoneVerified' = FALSE
    /\ addressVerified' = FALSE

\* the verification page of run r is the one mounted
Mounted(r) == currentPage = "verification" /\ verificationData = <<r>>

\* the verification result effect of ChatContainer, run after a render in
\* which verificationResult is result and pendingVerification is pending
VerificationEffect(result, pending) ==
    IF result # Null /\ pending /\ ~verificationProcessed
    THEN /\ verificationProcessed' = TRUE
         /\ pendingVerification' = FALSE
         /\ messages' = Append(messages, KycMsg)
    ELSE /\ verificationProcessed' = verificationProcessed
         /\ pendingVerification' = pending
         /\ messages' = messages

\* what no handler of App or of the verification page touches
AppFrame ==
    UNCHANGED <<serverVars, retryVars, downloads, served, history, resetOf,
                formVars, fileVars, calcVars, mockVars>>

\* what a navigation of App leaves alone
NavigationFrame ==
    /\ AppFrame
    /\ UNCHANGED <<chatVars, verificationData, verificationResult,
                   pendingVerification, verificationProcessed, chatCustomer,
                   waiting, runs, completed>>

\* LandingPage onGetStarted: handleGoToChat
GoToChat ==
    /\ currentPage = "landing"
    /\ chatMounted' = TRUE
    /\ currentPage' = "chat"
    /\ UNCHANGED verificationVars
    /\ NavigationFrame

\* LandingPage onViewHistory
ViewHistory ==
    /\ currentPage = "landing"
    /\ currentPage' = "history"
    /\ UNCHANGED <<chatMounted, verificationVars>>
    /\ NavigationFrame

\* HistoryPage onBack
HistoryBack ==
    /\ currentPage = "history"
    /\ currentPage' = "landing"
    /\ UNCHANGED <<chatMounted, verificationVars>>
    /\ NavigationFrame

\* the chat container unmounts on the way back to the landing page
BackToLandingUnmounting ==
    /\ currentPage = "chat"
    /\ chatMounted
    /\ currentPage' = "landing"
    /\ chatMounted' = FALSE
    /\ UNCHANGED verificationVars
    /\ NavigationFrame

\* ChatContainer onBack: handleBackToLanding
BackToLanding ==
    /\ currentPage = "chat"
    /\ chatMounted
    /\ currentPage' = "landing"
    /\ UNCHANGED <<chatMounted, verificationVars>>
    /\ NavigationFrame

\* VerificationPage onBack: the page unmounts
VerificationBack ==
    /\ currentPage = "verification"
    /\ verificationData # Null
    /\ currentPage' = "chat"
    /\ VerificationPageFresh
    /\ UNCHANGED chatMounted
    /\ NavigationFrame

\* submitForm(formData) of the hook, formData.form_data given
SubmitForm ==
    /\ currentPage = "chat"
    /\ chatMounted
    /\ calls < MaxForms
    /\ chatCustomer' = TRUE
    /\ IF isLoading THEN UNCHANGED chatVars ELSE SendStart(TRUE)
    /\ AppFrame
    /\ UNCHANGED <<currentPage, verificationData, verificationResult,
                   chatMounted, pendingVerification, verificationProcessed,
                   verificationVars, waiting, runs, completed>>

\* handleProceedToVerification, handleStartVerification of App and the
\* render that follows: the verification page mounts
ProceedToVerification ==
    /\ currentPage = "chat"
    /\ chatMounted
    /\ chatCustomer
    /\ runs < MaxRuns
    /\ VerificationEffect(verificationResult, TRUE)
    /\ verificationData' = <<runs + 1>>
    /\ currentPage' = "verification"
    /\ runs' = runs + 1
    /\ VerificationPageFresh
    /\ AppFrame
    /\ UNCHANGED <<isTyping, isLoading, currentAgent, conversationContext,
                   error, inFlight, timers, calls, generation>>
    /\ UNCHANGED <<verificationResult, chatMounted, chatCustomer, waiting,
                   completed>>

\* what a handler of the verification page leaves alone
VerificationFrame ==
    /\ AppFrame
    /\ UNCHANGED <<chatVars, currentPage, verificationData,
                   verificationResult, chatMounted, pendingVerification,
                   verificationProcessed, chatCustomer, runs, completed>>

\* a handler of the mounted page runs up to its await
Await(op) ==
    /\ currentPage = "verification"
    /\ verificationData # Null
    /\ ~loading
    /\ loading' = TRUE
    /\ waiting' = waiting \cup {[op |-> op, run |-> verificationData[1]]}
    /\ UNCHANGED <<activeStep, otpSent, aadhaarVerified, phoneVerified,
                   addressVerified>>
    /\ VerificationFrame

\* verifyAadhaar, the Aadhaar number having 12 digits
VerifyAadhaar == activeStep = 0 /\ Await("aadhaar")

\* verifyAadhaar after its await
AadhaarDone ==
    \E w \in waiting :
        /\ w.op = "aadhaar"
        /\ waiting' = waiting \ {w}
        /\ IF Mounted(w.run)
           THEN /\ aadhaarVerified' = TRUE
                /\ loading' = FALSE
                /\ activeStep' = 1
                /\ UNCHANGED <<otpSent, phoneVerified, addressVerified>>
           ELSE UNCHANGED verificationVars
        /\ VerificationFrame

\* sendOtp (Send OTP and Resend OTP)
SendOtp == activeStep = 1 /\ Await("sendOtp")

\* sendOtp after its await
OtpSent ==
    \E w \in waiting :
        /\ w.op = "sendOtp"
        /\ waiting' = waiting \ {w}
        /\ IF Mounted(w.run)
           THEN /\ otpSent' = TRUE
                /\ loading' = FALSE
                /\ UNCHANGED <<activeStep, aadhaarVerified, phoneVerified,
                               addressVerified>>
           ELSE UNCHANGED verificationVars
        /\ VerificationFrame

\* verifyOtp, the OTP having 6 digits
VerifyOtp == activeStep = 1 /\ otpSent /\ Await("otp")

\* verifyOtp after its await
OtpDone ==
    \E w \in waiting :
        /\ w.op = "otp"
        /\ waiting' = waiting \ {w}
        /\ IF Mounted(w.run)
           THEN /\ phoneVerified' = TRUE
                /\ loading' = FALSE
                /\ activeStep' = 2
                /\ UNCHANGED <<otpSent, aadhaarVerified, addressVerified>>
           ELSE UNCHANGED verificationVars
        /\ VerificationFrame

\* verifyAddress, address and a 6-digit pincode given
VerifyAddress == activeStep = 2 /\ Await("address")

\* verifyAddress after its await of 2000 ms: the callback is scheduled
\* 1000 ms later.  A callback scheduled by an earlier click of the same page
\* is due before this await ends.
AddressDone ==
    \E w \in waiting :
        /\ w.op = "address"
        /\ [op |-> "complete", run |-> w.run] \notin waiting
        /\ waiting' = (waiting \ {w}) \cup {[op |-> "complete", run |-> w.run]}
        /\ IF Mounted(w.run)
           THEN /\ addressVerified' = TRUE
                /\ loading' = FALSE
                /\ UNCHANGED <<activeStep, otpSent, aadhaarVerified,
                               phoneVerified>>
           ELSE UNCHANGED verificationVars
        /\ VerificationFrame

\* the scheduled onVerificationComplete: handleVerificationComplete of App
\* and the render that follows, in which a mounted verification page
\* unmounts and the verification result effect runs
VerificationComplete ==
    \E w \in waiting :
        /\ w.op = "complete"
        /\ waiting' = waiting \ {w}
        /\ completed' = Append(completed, w.run)
        /\ verificationResult' = <<Len(completed) + 1>>
        /\ currentPage' = "chat"
        /\ VerificationEffect(verificationResult', pendingVerification)
        /\ VerificationPageFresh
        /\ AppFrame
        /\ UNCHANGED <<isTyping, isLoading, currentAgent, conversationContext,
                       error, inFlight, timers, calls, generation>>
        /\ UNCHANGED <<verificationData, chatMounted, chatCustomer, runs>>

AppNext ==
    \/ GoToChat
    \/ ViewHistory
    \/ HistoryBack
    \/ BackToLanding
    \/ VerificationBack
    \/ SubmitForm
    \/ SendResolvesSome
    \/ SendRejectsSome
    \/ ProceedToVerification
    \/ VerifyAadhaar
    \/ AadhaarDone
    \/ SendOtp
    \/ OtpSent
    \/ VerifyOtp
    \/ OtpDone
    \/ VerifyAddress
    \/ AddressDone
    \/ VerificationComplete

(***************************************************************************)
(* Specifications                                                          *)
(***************************************************************************)
Init == ServerInit /\ RetryIdle /\ ChatInit /\ ExtInit

Next == PostMessage \/ PostForm \/ Tick

\* the chat server
Spec == Init /\ [][Next]_vars

\* one chat hook talking to the chat server
SessionSpec == Init /\ [][SessionNext]_vars

DownloadNext == PostMessage \/ PostForm \/ Tick \/ DownloadSome

\* the customer form, the chat server and any other client of the server
FormSpec == Init /\ [][FormNext]_vars

EmiInit ==
    ServerInit /\ RetryIdle /\ ChatInit /\ PageInit /\ CalcInit /\ MockInit

\* the EMI calculator and the EMIs of the loan options
EmiSpec == EmiInit /\ [][EmiNext]_vars

\* the mock services
MockSpec == Init /\ [][MockNext]_vars

CrmNext == CrmSimulate \/ CrmGet

\* the CRM mock service
CrmSpec == Init /\ [][CrmNext]_vars

\* the file input of the chat with the chat hook
FileSpec == Init /\ [][FileNext]_vars

\* the chat server with its download endpoint
DownloadSpec == Init /\ [][DownloadNext]_vars

HistoryNext ==
    \/ PostMessage
    \/ PostForm
    \/ DownloadSome
    \/ HistoryApplications
    \/ HistorySanctionLetters
    \/ HistoryStatistics

\* the chat server with its download and history endpoints, within one
\* millisecond
HistorySpec == Init /\ [][HistoryNext]_vars

RetryInit ==
    /\ ServerInit
    /\ ChatInit
    /\ ExtInit
    /\ \E max \in {DefaultMaxRetries, UploadMaxRetries} : RetryStart(max)

\* one withRetry call
RetrySpec == RetryInit /\ [][RetryNext]_vars

\* the event loop runs every timer and settles every request
RetryFairSpec == RetrySpec /\ WF_vars(RetryNext)

\* one chat hook
ChatSpec == Init /\ [][ChatNext]_vars

ContainerNext ==
    \/ SendMessageSome
    \/ SendResolvesSome
    \/ SendRejectsSome
    \/ UploadFile
    \/ UploadResolvesSome
    \/ UploadRejectsSome
    \/ FollowUp
    \/ ClickReset
    \/ ResetResolves
    \/ ResetRejects

\* the chat hook driven by the chat container
ContainerSpec == Init /\ [][ContainerNext]_vars

\* one chat hook sending messages to the chat endpoint of app.js: each request
\* is answered by the server or fails (no response, a timeout after 30 s, an
\* error status after the retries of withRetry)
SendNext ==
    \/ SendMessageSome
    \/ ServerAnswersSome
    \/ SendRejectsSome
    \/ Tick

SendSpec == Init /\ [][SendNext]_vars

\* a request that was sent settles: the axios timeout bounds each attempt and
\* withRetry makes at most maxRetries attempts
SendFairSpec == SendSpec /\ WF_vars(ServerAnswersSome \/ SendRejectsSome)

\* the credit-score endpoints
CreditSpec == Init /\ [][CreditNext]_vars

\* the pages of the application: navigation, the chat and its verification
AppSpec == Init /\ [][AppNext]_vars

(***************************************************************************)
(* Properties                                                              *)
(***************************************************************************)
Last(seq) == seq[Len(seq)]

\* the session the last request was handled for, once a request was handled
Served == sessionData[reply.session]

\* every score the credit check draws clears the underwriting threshold, so
\* no request is ever decided on a score below it
ScoreClearsThreshold ==
    reply.score # NoScore => reply.score >= ScoreThreshold

\* a credit check has drawn the least score of its range
ScoreDrawn == reply.branch = "credit" /\ reply.score = ScoreBase

\* C2: when underwriting decides on a request whose amount is at most the
\* pre-approved limit (the limit itself included), it approves at once: the
\* session is approved, an application with status 'approved' for exactly
\* that amount is recorded, and the reply asks for no document.
C2_ApprovedWithinLimit ==
    (reply.branch = "approval" /\ AmountOf(Served) <= PreApprovedLimit)
    => /\ Served.stage = "approved"
       /\ applications # <<>>
       /\ Last(applications).status = "approved"
       /\ Last(applications).requested_amount = AmountOf(Served)
       /\ Last(applications).approved_amount = AmountOf(Served)
       /\ Last(appSession) = reply.session
       /\ reply.agentType = "underwriting"
       /\ reply.messageType = "none"

\* C2 witness: a customer who asked for exactly the limit was approved
C2_Witness ==
    /\ reply.branch = "approval"
    /\ Served.customerData # Null
    /\ Served.customerData[1].loanAmount = PreApprovedLimit
    /\ Last(applications).status = "approved"
    /\ Last(applications).requested_amount = PreApprovedLimit

\* C3: the history never holds an approved application whose requested
\* amount exceeds twice the pre-approved limit.
C3_NoApprovalAboveTwiceLimit ==
    \A i \in 1..Len(applications) :
        applications[i].status = "approved"
        => applications[i].requested_amount <= 2 * PreApprovedLimit

\* C4: an application for more than the limit and at most twice the limit is
\* approved only if a salary figure is on file and the EMI is at most half
\* of the monthly salary.
C4_AffordabilityRule ==
    (/\ reply.branch = "approval"
     /\ AmountOf(Served) > PreApprovedLimit
     /\ AmountOf(Served) <= 2 * PreApprovedLimit
     /\ Last(applications).status = "approved")
    => /\ Served.customerData # Null
       /\ Served.customerData[1].salary # NaN
       /\ 2 * Last(applications).emi <= Served.customerData[1].salary

\* position of a stage in the chain initiation -> (information collection,
\* the form) sales -> verification -> underwriting -> approved -> completed
Rank(stage) ==
    CASE stage = "initiation" -> 0
      [] stage = "sales" -> 1
      [] stage = "verification" -> 2
      [] stage = "underwriting" -> 3
      [] stage = "approved" -> 4
      [] stage = "completed" -> 5

\* C5: a request leaves the stage of every session where it is or moves it
\* to the next stage of the chain: no stage is skipped, none is gone back to.
C5_StageOrder ==
    [][\A s \in DOMAIN sessionData' :
         \/ sessionData'[s].stage = Lookup(sessionData, s).stage
         \/ Rank(sessionData'[s].stage) = Rank(Lookup(sessionData, s).stage) + 1]_vars

\* the id of the sanction letter session s generated last
LetterOf(s) ==
    LET own == {i \in 1..Len(sanctionLetters) : letterSession[i] = s}
        i == CHOOSE j \in own : \A k \in own : k <= j
    IN  sanctionLetters[i].id

\* C8: a generate-letter message sent again to a session that has generated
\* the letter of its approved application (stage completed) is answered with
\* the id of that same letter, and adds no letter.
C8_SameArtifact ==
    [][\A sid \in DOMAIN sessionData, msg \in Messages, score \in Scores \cup {NoScore} :
         (/\ sessionData[sid].stage = "completed"
          /\ IncludesAny(msg, LetterWords)
          /\ ChatMessage(sid, msg, NoForm, score))
         => /\ reply'.letterId = LetterOf(sid)
            /\ sanctionLetters' = sanctionLetters]_vars

ClaimTransient(err) ==
    /\ err.axios
    /\ \/ err.status >= 500
       \/ err.status \in {408, 429}
       \/ err.status = NoStatus

\* a terminal failure: an HTTP status in 400..499 other than 408 and 429
ClaimTerminal(err) ==
    /\ err.axios
    /\ err.status \in 400..499
    /\ err.status \notin {408, 429}

RetryDone == rPc \in {"returned", "thrown"}

\* at every moment of a withRetry call
C6_Bounded ==
    /\ Len(rErrors) <= rMax + 1
    /\ rPc = "thrown" => Len(rSleeps) = Len(rErrors) - 1
    /\ rPc = "returned" => Len(rSleeps) = Len(rErrors)
    /\ (rPc = "thrown" /\ \A i \in 1..Len(rErrors) : ClaimTransient(rErrors[i]))
       => /\ Len(rErrors) = rMax + 1
          /\ Len(rSleeps) = rMax
          /\ thrown = <<Last(rErrors)>>

\* C6: a withRetry call ends; it never makes more than maxRetries + 1
\* attempts, sleeps only between two attempts, and when every attempt failed
\* with a transient error it has made exactly maxRetries + 1 attempts and
\* rejects with the error of the last one.
C6_RetryTerminates == []C6_Bounded /\ <>RetryDone

\* C6 witness: four transient failures under the default configuration
C6_Witness ==
    /\ rPc = "thrown"
    /\ rMax = DefaultMaxRetries
    /\ Len(rErrors) = DefaultMaxRetries + 1
    /\ \A i \in 1..Len(rErrors) : ClaimTransient(rErrors[i])
    /\ \E i \in 1..Len(rErrors) : rErrors[i].status = 500
    /\ \E i \in 1..Len(rErrors) : rErrors[i].status = NoStatus

\* C7: a failed attempt with a terminal error is the last one: the call has
\* rejected with that very error, and no sleep followed the attempt.
C7_TerminalNotRetried ==
    \A i \in 1..Len(rErrors) :
        ClaimTerminal(rErrors[i])
        => /\ i = Len(rErrors)
           /\ rPc = "thrown"
           /\ thrown = <<rErrors[i]>>
           /\ Len(rSleeps) = i - 1

\* C7 witness: a terminal failure on the second attempt, retries left
C7_Witness ==
    /\ Len(rErrors) = 2
    /\ ClaimTerminal(rErrors[2])
    /\ attempt < rMax
    /\ rPc = "thrown"

C11_ResetKeepsSession ==
    [][\A c \in inFlight :
         (/\ c.kind = "send"
          /\ c \notin inFlight'
          /\ resetOf.session # NoId
          /\ c.id > resetOf.call)
         => /\ reply'.session = resetOf.session
            /\ Lookup(sessionData, resetOf.session).stage = "initiation"
            /\ Lookup(sessionData, resetOf.session).customerData = Null]_vars

\* C12: a chat request without sessionId is handled under an identifier no
\* existing session has, and a request with a sessionId is answered with
\* exactly that identifier.
C12_UniqueSessionIds ==
    [][handled' = handled + 1 =>
         IF reply'.given = NoId
         THEN reply'.session \notin DOMAIN sessionData
         ELSE reply'.session = reply'.given]_vars

\* C13: a successful download adds one to the downloaded_count of the letter
\* it sends and changes nothing else: the number of letters, every other
\* field of every letter, the sessions and the applications stay as they are.
C13_DownloadCountsOnly ==
    [][downloads' # downloads =>
         /\ served'.status = 200
         /\ \E i \in 1..Len(sanctionLetters) :
               /\ sanctionLetters[i].id = served'.letterId
               /\ sanctionLetters' =
                    [sanctionLetters EXCEPT
                       ![i].downloaded_count = sanctionLetters[i].downloaded_count + 1]
         /\ sessionData' = sessionData
         /\ applications' = applications]_vars

\* a letter has been downloaded twice
C13_Witness ==
    /\ downloads = 2
    /\ \E i \in 1..Len(sanctionLetters) : sanctionLetters[i].downloaded_count = 2

\* the loan amount a form carries is a number within the form's bounds
AmountInBounds(fd) ==
    /\ fd.loan_amount \notin {Undefined, Text}
    /\ fd.loan_amount >= MinLoanAmount
    /\ fd.loan_amount <= MaxLoanAmount

\* C14: a form submission whose loan amount is missing, not a number or
\* outside 50,000..5,000,000 is not answered as an accepted form: it produces
\* no loan options and leaves the session's stage and customerData unchanged.
C14_InvalidFormRejected ==
    [][(/\ handled' = handled + 1
        /\ reply'.form # NoForm
        /\ ~AmountInBounds(reply'.form[1]))
       => /\ reply'.branch # "form"
          /\ reply'.options = <<>>
          /\ reply'.session \in DOMAIN sessionData
               => sessionData'[reply'.session] = sessionData[reply'.session]
          /\ reply'.session \notin DOMAIN sessionData
               => /\ sessionData'[reply'.session].stage = "initiation"
                  /\ sessionData'[reply'.session].customerData = Null]_vars

\* C16: a form submission with a loan amount within the bounds is answered
\* with one to three loan options, each for the submitted loan amount, with
\* tenures from {36, 48, 60} in strictly ascending order; the display shows
\* no more than three options and the recommended one is the first option,
\* the one of the lowest tenure.
C16_OrderedOptions ==
    [][(/\ handled' = handled + 1
        /\ reply'.form # NoForm
        /\ AmountInBounds(reply'.form[1]))
       => LET options == reply'.options
              shown   == Displayed(options)
          IN  /\ Len(options) \in 1..3
              /\ \A i \in 1..Len(options) :
                    /\ options[i].amount = reply'.form[1].loan_amount
                    /\ options[i].tenure \in {36, 48, 60}
              /\ \A i \in 1..(Len(options) - 1) :
                    options[i].tenure < options[i + 1].tenure
              /\ Len(shown) <= 3
              /\ shown[Recommended] = options[1]
              /\ \A i \in 1..Len(options) :
                    shown[Recommended].tenure <= options[i].tenure]_vars

C16_Witness ==
    /\ reply.form # NoForm
    /\ AmountInBounds(reply.form[1])
    /\ Len(Displayed(reply.options)) = 3
    /\ formErrors = {}

\* the file is a PDF, a JPEG or a PNG no larger than the maximum size
\* (image/jpg is a JPEG image)
AcceptableFile(file) ==
    /\ file.type \in {"application/pdf", "image/jpeg", "image/jpg", "image/png"}
    /\ file.size <= MaxSize

\* C15: selecting a file that is not a PDF, JPEG or PNG within the maximum
\* size raises a type or size alert, starts no upload request and adds no
\* chat message; an upload request is started only for an acceptable file.
C15_OnlyAcceptableUploaded ==
    [][/\ (selects' = selects + 1 /\ ~AcceptableFile(selected'))
          => /\ alerted' \in {"type", "size"}
             /\ inFlight' = inFlight
             /\ messages' = messages
             /\ calls' = calls
       /\ (\E c \in inFlight' \ inFlight : c.kind = "upload")
          => /\ selects' = selects + 1
             /\ AcceptableFile(selected')
             /\ alerted' = "none"]_vars

C15_Witness ==
    /\ selects = 3
    /\ ~AcceptableFile(selected)
    /\ alerted = "size"
    /\ \E i \in 1..Len(messages) : messages[i].messageType = "file"

\* C17: the EMI of the calculator does not decrease when the principal or the
\* rate increases and does not increase when the tenure increases; the EMIs
\* of the three loan options of one amount do not increase with the tenure,
\* and decrease for an amount within the form's bounds; the EMI of an option
\* does not decrease when the amount increases.
C17_EmiMonotonic ==
    /\ \A p \in Principals :
          p >= loanAmount => CalculateEMI(p, tenure, rate) >= emi
    /\ \A r \in Rates :
          r >= rate => CalculateEMI(loanAmount, tenure, r) >= emi
    /\ \A n \in Months :
          n >= tenure => CalculateEMI(loanAmount, n, rate) <= emi
    /\ quoted # <<>> =>
          /\ \A i \in 1..2 :
                /\ quoted[i].tenure < quoted[i + 1].tenure
                /\ quoted[i].emi >= quoted[i + 1].emi
                /\ quoted[1].amount >= MinLoanAmount
                     => quoted[i].emi > quoted[i + 1].emi
          /\ \A amount \in OptionAmounts :
                amount >= quoted[1].amount
                  => \A i \in 1..3 : LoanOptions(amount)[i].emi >= quoted[i].emi

C17_Witness ==
    /\ loanAmount = MinLoanAmount
    /\ tenure = 3
    /\ rate = 600
    /\ emi = CalculateEMI(MinLoanAmount, 3, 600)
    /\ emi > CalculateEMI(MinLoanAmount, 6, 600)
    /\ emi < CalculateEMI(MinLoanAmount, 3, 1200)
    /\ quoted = LoanOptions(PreApprovedLimit)
    /\ quoted[1].emi > quoted[3].emi

\* the step is a GET request to the route of the service
GetStep(service, route) ==
    /\ mockRequests' = mockRequests + 1
    /\ answer'.service = service
    /\ answer'.route = route

\* no flag of the record is set
NoneSet(flags) == \A f \in DOMAIN flags : ~flags[f]

\* C18: on every server with GET /offers/:userId, a request for an id
\* without an offer record, with no error simulated, is answered 200 with
\* success true, preApprovedLimit 500000 and interestRate 12.5.
C18_DefaultOffer ==
    [][\A service \in {"offerApp", "combinedApp", "server", "app"} :
         (/\ GetStep(service, "offers")
          /\ answer'.userId \notin DOMAIN offerData
          /\ NoneSet(offerSimulateErrors))
         => /\ answer'.status = 200
            /\ answer'.success = "true"
            /\ \/ answer'.top.limit = 500000 /\ answer'.top.rate = 125
               \/ answer'.data.limit = 500000 /\ answer'.data.rate = 125]_vars

\* C19: with no error simulated, GET /crm/:userId of crmApp,
\* GET /credit-score/:userId of creditApp and GET /offers/:userId of offerApp
\* answer 200 with success true and the record of the id for an id of the
\* data set, and 404 with success false for any other id.
C19_RecordOrNotFound ==
    [][/\ (GetStep("crmApp", "crm") /\ NoneSet(simulateErrors))
          => IF answer'.userId \in DOMAIN customerData
             THEN /\ answer'.status = 200 /\ answer'.success = "true"
                  /\ answer'.data = customerData[answer'.userId]
                  /\ answer'.data.id = answer'.userId
             ELSE answer'.status = 404 /\ answer'.success = "false"
       /\ (GetStep("creditApp", "credit-score") /\ NoneSet(creditSimulateErrors))
          => IF answer'.userId \in DOMAIN creditScoreData
             THEN /\ answer'.status = 200 /\ answer'.success = "true"
                  /\ answer'.data = creditScoreData[answer'.userId]
                  /\ answer'.data.id = answer'.userId
             ELSE answer'.status = 404 /\ answer'.success = "false"
       /\ (GetStep("offerApp", "offers") /\ NoneSet(offerSimulateErrors))
          => IF answer'.userId \in DOMAIN offerData
             THEN /\ answer'.status = 200 /\ answer'.success = "true"
                  /\ answer'.data = offerData[answer'.userId]
                  /\ answer'.data.id = answer'.userId
             ELSE answer'.status = 404 /\ answer'.success = "false"]_vars

\* C20 as stated: while the serverError flag of the CRM service is set every
\* GET /crm/:userId returns 500, and once it is cleared a GET for a known
\* customer returns 200 with the customer's record.
C20_ReversibleSwitch ==
    [][GetStep("crmApp", "crm") =>
         IF simulateErrors.serverError
         THEN answer'.status = 500
         ELSE answer'.userId \in DOMAIN customerData
                => /\ answer'.status = 200
                   /\ answer'.data = customerData[answer'.userId]]_vars

\* C20, amended: POST /simulate-error with a flag of the CRM service sets
\* this flag to the enabled value and no other; while serverError is set and
\* timeout is not, every GET /crm/:userId returns 500; while no flag is set,
\* a GET for a known customer returns 200 with the customer's record; a GET
\* changes no flag.
C20_SwitchWithoutTimeout ==
    [][/\ (/\ mockRequests' = mockRequests + 1
           /\ answer'.service = "crmApp"
           /\ answer'.route = "simulate-error"
           /\ answer'.status = 200)
          => simulateErrors' =
               [simulateErrors EXCEPT ![answer'.message[1]] = answer'.message[2]]
       /\ GetStep("crmApp", "crm")
          => /\ simulateErrors' = simulateErrors
             /\ (simulateErrors.serverError /\ ~simulateErrors.timeout)
                  => answer'.status = 500
             /\ (NoneSet(simulateErrors)
                 /\ answer'.userId \in DOMAIN customerData)
                  => /\ answer'.status = 200
                     /\ answer'.success = "true"
                     /\ answer'.data = customerData[answer'.userId]]_vars

C20_Witness ==
    /\ crmLog = <<500, 200>>
    /\ mockRequests = 4
    /\ NoneSet(simulateErrors)
    /\ answer = CrmAnswer(simulateErrors, "CUST001")
    /\ answer.data = customerData["CUST001"]

\* C21: every chat request takes one branch, sends one reply and commits the
\* whole state change of its branch: an application is appended exactly by
\* the approval branch, together with the stage 'approved'; a sanction
\* letter exactly by the sanction branch, together with the stage
\* 'completed'; customer data is written exactly by the form branch,
\* together with the stage 'sales'; no stage becomes 'approved' or
\* 'completed' without its record, and no other session changes.
C21_AtomicCommit ==
    [][handled' = handled + 1 =>
         LET s   == reply'.session
             old == Lookup(sessionData, s)
             new == sessionData'[s]
             b   == reply'.branch
         IN  /\ b \in {"form", "greeting", "verification", "credit",
                       "sanction", "approval", "default"}
             /\ (applications' # applications) <=> (b = "approval")
             /\ b = "approval"
                  => /\ Len(applications') = Len(applications) + 1
                     /\ SubSeq(applications', 1, Len(applications)) = applications
                     /\ appSession' = Append(appSession, s)
                     /\ new.stage = "approved"
             /\ (sanctionLetters' # sanctionLetters) <=> (b = "sanction")
             /\ b = "sanction"
                  => /\ Len(sanctionLetters') = Len(sanctionLetters) + 1
                     /\ SubSeq(sanctionLetters', 1, Len(sanctionLetters))
                          = sanctionLetters
                     /\ letterSession' = Append(letterSession, s)
                     /\ new.stage = "completed"
             /\ (b = "form") <=> (reply'.form # NoForm)
             /\ b = "form" => new.stage = "sales" /\ new.customerData # Null
             /\ b # "form" => new.customerData = old.customerData
             /\ b \in {"greeting", "default"} => new = old
             /\ (new.stage = "approved" /\ old.stage # "approved")
                  => b = "approval"
             /\ (new.stage = "completed" /\ old.stage # "completed")
                  => b = "sanction"
             /\ \A t \in DOMAIN sessionData \ {s} :
                   sessionData'[t] = sessionData[t]]_vars

C21_Witness ==
    /\ reply.branch = "sanction"
    /\ sessionData[reply.session].stage = "completed"
    /\ Len(applications) = 1
    /\ Len(sanctionLetters) = 1
    /\ appSession = letterSession

\* C22: at most one request of the chat is in flight; isLoading is true
\* while a call is pending; and while isLoading is true no call starts: no
\* request is sent and no message is added by a new call.
C22_OneInFlight ==
    [][/\ Cardinality(inFlight') <= 1
       /\ inFlight' # {} => isLoading'
       /\ isLoading => inFlight' \subseteq inFlight /\ calls' = calls]_vars

C22_Witness ==
    /\ isLoading
    /\ calls = 3
    /\ \E c \in inFlight : c.kind = "reset" /\ inFlight = {c}
    /\ \E i \in 1..Len(messages) : messages[i].kind = "uploaded"

\* C23: an application is appended only by the approval branch of a chat
\* request; every application of the history has the status approved or
\* rejected; and no chat, download or history request changes or removes an
\* application already in the history.
C23_ApplicationsImmutable ==
    [][/\ Len(applications') >= Len(applications)
       /\ SubSeq(applications', 1, Len(applications)) = applications
       /\ Len(applications') > Len(applications)
            => /\ handled' = handled + 1
               /\ reply'.branch = "approval"
               /\ Len(applications') = Len(applications) + 1
       /\ \A i \in 1..Len(applications') :
             applications'[i].status \in {"approved", "rejected"}]_vars

C23_Witness ==
    /\ Len(applications) = 1
    /\ applications[1].status = "approved"
    /\ downloads = 1
    /\ history = HistoryResponse("statistics", 1, 1)

\* the positions of the history records that session s produced
RecordsOf(sessions, s) == {i \in 1..Len(sessions) : sessions[i] = s}

\* the largest member of a non-empty set of numbers
Latest(S) == CHOOSE i \in S : \A j \in S : j <= i

C25_NoSecondApplication ==
    [][(/\ handled' = handled + 1
        /\ reply.branch \in {"approval", "sanction"}
        /\ reply'.session = reply.session
        /\ reply'.form = NoForm)
       => applications' = applications]_vars

\* a sendMessage call is awaiting its request
Sending == \E c \in inFlight : c.kind = "send"

\* C26: an accepted sendMessage call appends the user's message first and
\* completes: its request settles, the call then appends at least one agent
\* message after the user's message (the reply on success; a system error
\* message on failure, with error set) and ends with isLoading and isTyping
\* false.
C26_SendCompletes ==
    /\ [][/\ (~Sending /\ Sending') =>
               /\ Len(messages') = Len(messages) + 1
               /\ SubSeq(messages', 1, Len(messages)) = messages
               /\ Last(messages').sender = "user"
          /\ (Sending /\ ~Sending') =>
               /\ Last(messages).sender = "user"
               /\ Len(messages') > Len(messages)
               /\ SubSeq(messages', 1, Len(messages)) = messages
               /\ \A i \in (Len(messages) + 1)..Len(messages') :
                      messages'[i].sender = "agent"
               /\ ~isLoading'
               /\ ~isTyping'
               /\ (handled' = handled) =>
                      /\ error' # "none"
                      /\ messages'[Len(messages) + 1].messageType = "system"
               /\ (handled' # handled) =>
                      /\ error' = "none"
                      /\ messages'[Len(messages) + 1].kind = "reply"]_vars
    /\ (Sending ~> (~Sending /\ ~isLoading /\ ~isTyping))

C26_Witness ==
    /\ ~isLoading
    /\ ~isTyping
    /\ calls = 2
    /\ error # "none"
    /\ Len(messages) = 5
    /\ messages[3].kind = "reply"
    /\ messages[4].sender = "user"
    /\ messages[5].messageType = "system"


\* number of 'KYC Verification Complete' messages in the chat
KycCount(msgs) == Cardinality({i \in 1..Len(msgs) : msgs[i].kind = "kyc"})

\* number of onVerificationComplete callbacks of run r
Completions(seq, r) == Cardinality({i \in 1..Len(seq) : seq[i] = r})

\* C27: every verification started from the chat and completed appends
\* exactly one 'KYC Verification Complete' agent message to the chat, the
\* first verification and every later one: the first callback of a run
\* appends one such message, and no other step appends or removes one.
C27_EveryVerificationAnnounced ==
    [][IF Len(completed') = Len(completed) + 1
          /\ Completions(completed, Last(completed')) = 0
       THEN /\ KycCount(messages') = KycCount(messages) + 1
            /\ Last(messages') = KycMsg
       ELSE KycCount(messages') = KycCount(messages)]_vars

\* C28: in the verification page activeStep never decreases, activeStep >= 1
\* implies aadhaarVerified, activeStep = 2 implies phoneVerified, and
\* onVerificationComplete is invoked at most once per verification run, and
\* from a mounted page only with Aadhaar, phone and address verified.
C28_StepsInOrder ==
    [][/\ (currentPage = "verification" /\ currentPage' = "verification"
           /\ verificationData' = verificationData)
          => activeStep' >= activeStep
       /\ activeStep' \in 0..2
       /\ activeStep' >= 1 => aadhaarVerified'
       /\ activeStep' = 2 => phoneVerified'
       /\ addressVerified' => activeStep' = 2
       /\ \A r \in 1..runs' : Completions(completed', r) <= 1
       /\ (Len(completed') = Len(completed) + 1 /\ Mounted(Last(completed')))
          => (aadhaarVerified /\ phoneVerified /\ addressVerified)]_vars

\* C30: currentPage = 'verification' implies verificationData is set,
\* currentPage = 'chat' implies the chat container is mounted, and no step
\* unmounts a mounted chat container.
C30_ChatKeptAlive ==
    [][/\ currentPage' = "verification" => verificationData' # Null
       /\ currentPage' = "chat" => chatMounted'
       /\ chatMounted => chatMounted'
       /\ currentPage' \in {"landing", "chat", "history", "verification"}]_vars

C30_Witness ==
    /\ currentPage = "chat"
    /\ chatMounted
    /\ runs = 2
    /\ verificationData = <<2>>
    /\ completed = <<1>>
    /\ verificationResult # Null
    /\ waiting = {}

\* C29: a successful credit-score response reports a single score: the
\* top-level creditScore equals data.creditScore, for known and for unknown
\* users, and the score is an integer between 0 and 900.
C29_SingleScore ==
    (/\ answer.route = "credit-score"
     /\ answer.service \in {"combinedApp", "server", "combined-server", "app"}
     /\ answer.status = 200
     /\ answer.success = "true")
    => /\ answer.top.score = answer.data.score
       /\ answer.top.score \in 0..900

====
